---- MODULE Spec2Model ----
(***************************************************************************)
(* Microphone capture, frame encoding and level visualisation of the       *)
(* dictation overlay.                                                      *)
(*                                                                         *)
(*   Spec       the guarded overlay (src/unnamed/part_009): the            *)
(*              floating-expanded listener, startAudioCapture,             *)
(*              stopAudioCapture, the updateBars animation loop and the    *)
(*              environment's asynchronous completions.                    *)
(*   SpecSend   the same overlay with the worklet's frames handed to the   *)
(*              transport.                                                 *)
(*   SpecClose  the same overlay with AudioContext.close() resolving or    *)
(*              rejecting.                                                 *)
(*   SpecEnc    the AudioProcessor worklet (src/public/audio-processor.js) *)
(*   SpecSessions  the worklet across capture sessions.                    *)
(*   SpecLevel  the scalar overlay (src/src/components/FloatingWindow.tsx) *)
(*              driven by audio-level signals.                             *)
(*   SpecMode   the mode menu of the scalar overlay and its store.         *)
(*   SpecRec    the recorder hooks (useRealtimeTranscription over          *)
(*              useAudioRecorder).                                         *)
(*                                                                         *)
(* A null reference is 0.  A capture session k >= 1 names the stream, the  *)
(* audio context and the graph nodes created by the k-th successful        *)
(* getUserMedia call.                                                      *)
(***************************************************************************)
EXTENDS Integers, Sequences, FiniteSets, TLC

VARIABLES
    \* ---- guarded overlay (part_009) ----
    isActive,           \* useState isActive
    isProcessing,       \* useState isProcessing
    error,              \* useState error ("" is null)
    barHeights,         \* useState barHeights, in units of 1/HUnit pixel
    cap,                \* the refs: streamRef, audioContextRef, analyserRef,
                        \* sourceNodeRef, workletNodeRef, animationFrameRef
    isStartingRef,      \* isStartingRef.current
    starts,             \* startAudioCapture calls in flight: the await each is
                        \* suspended at and its local `stream` / `audioContext`
                        \* (session id, 0 before getUserMedia resolves)
    handlers,           \* floating-expanded(true) handlers suspended at an await
    tracks,             \* environment: session -> state of the stream's tracks
    ctxs,               \* environment: session -> state of the AudioContext
    rafPending,         \* environment: animation frame callbacks not yet run
    stopCalls,          \* release calls made by the latest stopAudioCapture
    stopFromIdle,       \* the latest stopAudioCapture was called with every ref null
    acqSinceStop,       \* streams acquired since the latest stopAudioCapture
    mounted,            \* the effect of lines 332-377 is installed
    nSignals,           \* external signals delivered so far
    lastOp,             \* the step taken last
    activation,         \* whether error / isProcessing were set when the latest
                        \* floating-expanded(true) arrived, and whether nothing
                        \* has set them or ended the session since
    requests,           \* floating-expanded(true) signals received, getUserMedia
                        \* calls issued and startAudioCapture calls failed
    port,               \* frames posted on the worklet's port, not yet delivered
                        \* to onmessage
    sends,              \* frames posted so far, send_audio_chunk invocations in
                        \* the order made, those pending and those rejected
    quiet,              \* stopAudioCapture has returned and no
                        \* startAudioCapture call has since ended with every
                        \* ref set
    failure,            \* the exception the catch block of startAudioCapture
                        \* got and the setError calls it made, while the label
                        \* they left is the one shown
    \* ---- AudioProcessor worklet (audio-processor.js) ----
    enc,                \* this.buffer, this.bufferIndex, the frames posted
                        \* on this.port so far and the arrays allocated
    wave,               \* environment: the waveform the microphone delivers
    fed,                \* samples delivered to process() so far
    nCalls,             \* process() calls so far
    lastLen,            \* length of the latest input channel (-1: no input)
    session,            \* the capture session the AudioProcessor belongs to:
                        \* its number, whether its graph is wired, the stream
                        \* position of its first sample, the samples the
                        \* session before left in its buffer, the latest step
    \* ---- scalar overlay (FloatingWindow.tsx) ----
    fwIsActive,         \* useState isActive
    fwIsProcessing,     \* useState isProcessing
    fwError,            \* useState error ("" is null)
    fwBarHeights,       \* useState barHeights, in units of 1/FP pixel
    fwHandlers,         \* floating-expanded(true) handlers suspended at an await
    fwLevel,            \* payload of the latest audio-level signal, in 1/1000
    fwBarsBefore,       \* barHeights when the latest audio-level signal arrived
    fwSignals,          \* external signals delivered so far
    fwLastOp,           \* the step taken last
    fwActiveMode,       \* useState activeMode
    fwSkipRules,        \* useState skipRules
    fwHasEnabledRules,  \* useState hasEnabledRules
    fwStore,            \* settings.json: the keys the overlay reads and writes
                        \* ("" is a key not set)
    fwWrites,           \* store.set calls of the menu that have not settled
    \* ---- recorder hooks (useRealtimeTranscription, useAudioRecorder) ----
    rt,                 \* useRealtimeTranscription: isRecording, isRecordingRef
    rec,                \* useAudioRecorder: isRecording and the refs
                        \* audioContextRef, workletNodeRef, streamRef
    recCalls,           \* startRecording / stopRecording calls suspended at an
                        \* await, with the call's local stream / audioContext
    recTracks,          \* environment: session -> state of the stream's tracks
    recCtxs,            \* environment: session -> state of the AudioContext
    recOps,             \* toggleRecording calls so far
    recToggles,         \* what each toggleRecording call did, in order
    recWorklets,        \* environment: session -> state of its AudioWorkletNode
    recPort,            \* frames posted on a worklet's port, not yet delivered
    recSends,           \* frames posted so far, those handed to
                        \* send_audio_chunk and those handleAudioChunk dropped
    recLastOp           \* the step taken last

overlayVars == <<isActive, isProcessing, error, barHeights, cap, isStartingRef,
                 starts, handlers, tracks, ctxs, rafPending,
                 stopCalls, stopFromIdle, acqSinceStop, mounted, nSignals,
                 lastOp,
                 activation, requests, port, sends, quiet, failure>>

encVars == <<enc, wave, fed, nCalls, lastLen, session>>

levelVars == <<fwIsActive, fwIsProcessing, fwError, fwBarHeights, fwHandlers,
               fwLevel, fwBarsBefore, fwSignals, fwLastOp, fwActiveMode,
               fwSkipRules, fwHasEnabledRules, fwStore, fwWrites>>

recVars == <<rt, rec, recCalls, recTracks, recCtxs, recOps, recLastOp,
             recToggles, recWorklets, recPort, recSends>>

modeVars == <<fwActiveMode, fwSkipRules, fwHasEnabledRules, fwStore, fwWrites>>

vars == <<overlayVars, encVars, levelVars, recVars>>

----------------------------------------------------------------------------
(* Bounds *)

MaxSessions == 2
MaxSignals == 3
MaxHandlers == 2
MaxCalls == 3
MaxSamples == 4801
MaxLevelSignals == 3
MaxFrames == 2
MaxEncSessions == 2
MaxRecOps == 3

----------------------------------------------------------------------------
(* Constants of part_009 *)

BAR_COUNT == 24
MIN_BAR_HEIGHT == 4
MAX_BAR_HEIGHT == 32
VOICE_AMPLIFICATION_X10 == 25      \* VOICE_AMPLIFICATION = 2.5, in tenths
FFT_SIZE == 256
MAX_BYTE == 255

frequencyBinCount == FFT_SIZE \div 2
binSize == frequencyBinCount \div BAR_COUNT

\* Bar heights are rationals; they are kept as integer numerators over HUnit.
HUnit == MAX_BYTE * binSize * 10

Sessions == 1..MaxSessions
Handles == 1..(MaxSessions + 2)

Min(a, b) == IF a < b THEN a ELSE b
Max(a, b) == IF a > b THEN a ELSE b

RECURSIVE SumRange(_, _, _)
SumRange(f, lo, hi) == IF lo >= hi THEN 0 ELSE f[lo] + SumRange(f, lo + 1, hi)

Baseline == [i \in 1..BAR_COUNT |-> MIN_BAR_HEIGHT * HUnit]

----------------------------------------------------------------------------
(* updateBars: the frequency-domain level estimator *)

\* Analyser outputs the animation tick may read: 128 byte magnitudes each.
DataPatterns == {"silence", "low", "edge", "over", "full", "ramp"}

ByteFrequencyData(p) ==
    [j \in 0..(frequencyBinCount - 1) |->
        CASE p = "silence" -> 0
          [] p = "low"     -> 40
          [] p = "edge"    -> 102
          [] p = "over"    -> 103
          [] p = "full"    -> MAX_BYTE
          [] OTHER         -> (j * 37) % (MAX_BYTE + 1)]

\* faulty variant: the amplified average is not clamped to 255
Amplified_NoClamp(sum) == sum * VOICE_AMPLIFICATION_X10

\* min(255, avg * VOICE_AMPLIFICATION), as a numerator over binSize * 10
Amplified(sum) == Min(MAX_BYTE * binSize * 10, sum * VOICE_AMPLIFICATION_X10)

BarHeight(sum) ==
    MIN_BAR_HEIGHT * HUnit + Amplified(sum) * (MAX_BAR_HEIGHT - MIN_BAR_HEIGHT)

UpdateBars(dataArray) ==
    [b \in 1..BAR_COUNT |->
        LET i == b - 1
            start == i * binSize
            end == start + binSize
        IN BarHeight(SumRange(dataArray, start, end))]

----------------------------------------------------------------------------
(* stopAudioCapture, as a function of the state it reads and writes *)

NullCap == [streamRef |-> 0, audioContextRef |-> 0, analyserRef |-> 0,
            sourceNodeRef |-> 0, workletNodeRef |-> 0, animationFrameRef |-> 0]

World == [cap |-> cap, tracks |-> tracks, ctxs |-> ctxs,
          rafPending |-> rafPending, barHeights |-> barHeights,
          calls |-> << >>]

\* faulty variant: the tracks are stopped before the graph is taken apart
ReleaseCalls_TracksFirst(w) ==
    LET c == w.cap
    IN (IF c.animationFrameRef # 0 THEN <<"cancelAnimationFrame">> ELSE << >>)
       \o (IF c.streamRef # 0 THEN <<"track.stop">> ELSE << >>)
       \o (IF c.workletNodeRef # 0 THEN <<"worklet.disconnect">> ELSE << >>)
       \o (IF c.analyserRef # 0 THEN <<"analyser.disconnect">> ELSE << >>)
       \o (IF c.sourceNodeRef # 0 THEN <<"source.disconnect">> ELSE << >>)
       \o (IF c.audioContextRef # 0 /\ w.ctxs[c.audioContextRef] # "closed"
           THEN <<"context.close">> ELSE << >>)

\* lines 215-241: the calls stopAudioCapture makes on the resources, in the
\* order it makes them
ReleaseCalls(w) ==
    LET c == w.cap
    IN (IF c.animationFrameRef # 0 THEN <<"cancelAnimationFrame">> ELSE << >>)
       \o (IF c.workletNodeRef # 0 THEN <<"worklet.disconnect">> ELSE << >>)
       \o (IF c.analyserRef # 0 THEN <<"analyser.disconnect">> ELSE << >>)
       \o (IF c.sourceNodeRef # 0 THEN <<"source.disconnect">> ELSE << >>)
       \o (IF c.streamRef # 0 THEN <<"track.stop">> ELSE << >>)
       \o (IF c.audioContextRef # 0 /\ w.ctxs[c.audioContextRef] # "closed"
           THEN <<"context.close">> ELSE << >>)

\* lines 215-243: every step of stopAudioCapture, the reset of the bars included
StopSteps(w) == ReleaseCalls(w) \o <<"setBarHeights">>

\* lines 213-244; `after` is what the refs hold when the call returns
StopAudioCaptureLeaving(w, after) ==
    LET c == w.cap
        closes == c.audioContextRef # 0 /\ w.ctxs[c.audioContextRef] # "closed"
    IN [cap |-> after,
        tracks |-> IF c.streamRef # 0
                   THEN [w.tracks EXCEPT ![c.streamRef] = "ended"]
                   ELSE w.tracks,
        ctxs |-> IF closes /\ w.ctxs[c.audioContextRef] = "running"
                 THEN [w.ctxs EXCEPT ![c.audioContextRef] = "closing"]
                 ELSE w.ctxs,
        rafPending |-> w.rafPending \ {c.animationFrameRef},
        barHeights |-> Baseline,
        calls |-> w.calls \o ReleaseCalls(w)]

\* faulty variant: line 222 is missing: the worklet node ref is not cleared
StopAudioCapture_KeepsWorklet(w) ==
    StopAudioCaptureLeaving(w, [NullCap EXCEPT !.workletNodeRef = w.cap.workletNodeRef])

StopAudioCapture(w) == StopAudioCaptureLeaving(w, NullCap)

\* The state after a stopAudioCapture call made in the current state.
Stopped ==
    LET r == StopAudioCapture(World)
    IN /\ cap' = r.cap
       /\ tracks' = r.tracks
       /\ ctxs' = r.ctxs
       /\ rafPending' = r.rafPending
       /\ barHeights' = r.barHeights
       /\ stopCalls' = r.calls
       /\ stopFromIdle' = (cap = NullCap)
       /\ acqSinceStop' = 0

----------------------------------------------------------------------------
(* startAudioCapture *)

\* faulty variant: the guard does not look at isStartingRef
StartGuardOpen_IgnoresStarting == cap.audioContextRef = 0

\* line 248: the guard against concurrent starts
StartGuardOpen == cap.audioContextRef = 0 /\ ~isStartingRef

\* lines 312-324: the label shown for a failure
DomErrors == {"NotAllowedError", "NotFoundError", "OverconstrainedError",
              "AbortError", "InvalidStateError"}

\* faulty variant: the else of line 322 is missing, setError("Mic error")
\* runs after the label of a DOMException was set
SetErrorCalls_FallsThrough(err) ==
    (IF err \in DomErrors
     THEN CASE err = "NotAllowedError" -> <<"Mic denied">>
            [] err = "NotFoundError" -> <<"Mic not found">>
            [] err = "OverconstrainedError" -> <<"Mic unavailable">>
            [] OTHER -> <<"Mic error: " \o err>>
     ELSE << >>)
    \o <<"Mic error">>

\* lines 312-324: the setError calls the catch block makes, in order
SetErrorCalls(err) ==
    IF err \in DomErrors
    THEN CASE err = "NotAllowedError" -> <<"Mic denied">>
           [] err = "NotFoundError" -> <<"Mic not found">>
           [] err = "OverconstrainedError" -> <<"Mic unavailable">>
           [] OTHER -> <<"Mic error: " \o err>>
    ELSE <<"Mic error">>

\* the label the error state holds after them
ErrorLabel(err) ==
    LET labels == SetErrorCalls(err)
    IN labels[Len(labels)]

RemoveAt(seq, i) == SubSeq(seq, 1, i - 1) \o SubSeq(seq, i + 1, Len(seq))

\* faulty variant: the catch block does not call stopAudioCapture (line 326)
StartFailed_NoCleanup(i, err) ==
    /\ error' = ErrorLabel(err)
    /\ failure' = [err |-> err, calls |-> SetErrorCalls(err)]
    /\ isStartingRef' = FALSE
    /\ starts' = RemoveAt(starts, i)
    /\ activation' = [activation EXCEPT !.undisturbed = FALSE]
    /\ requests' = [requests EXCEPT !.failed = @ + 1]
    /\ UNCHANGED <<cap, tracks, ctxs, rafPending, barHeights, stopCalls,
                   stopFromIdle, acqSinceStop, quiet>>

\* faulty variant: the catch block asks for the device again
StartFailed_Retries(i, err) ==
    /\ error' = ErrorLabel(err)
    /\ failure' = [err |-> err, calls |-> SetErrorCalls(err)]
    /\ Stopped
    /\ quiet' = TRUE
    /\ isStartingRef' = TRUE
    /\ starts' = Append(RemoveAt(starts, i), [pc |-> "gum", local |-> 0])
    /\ activation' = [activation EXCEPT !.undisturbed = FALSE]
    /\ requests' = [requests EXCEPT !.failed = @ + 1, !.gum = @ + 1]

\* lines 309-329: catch and finally of the call starts[i]
StartFailed(i, err) ==
    /\ error' = ErrorLabel(err)
    /\ failure' = [err |-> err, calls |-> SetErrorCalls(err)]
    /\ Stopped
    /\ quiet' = TRUE
    /\ isStartingRef' = FALSE
    /\ starts' = RemoveAt(starts, i)
    /\ activation' = [activation EXCEPT !.undisturbed = FALSE]
    /\ requests' = [requests EXCEPT !.failed = @ + 1]

\* lines 248-255: the call itself, up to the first await
StartAudioCapture ==
    IF StartGuardOpen
    THEN /\ isStartingRef' = TRUE
         /\ starts' = Append(starts, [pc |-> "store", local |-> 0])
         /\ lastOp' = "start"
    ELSE /\ UNCHANGED <<isStartingRef, starts>>
         /\ lastOp' = "startNoop"

FreshHandle(pending, ref) == CHOOSE h \in Handles : h \notin pending /\ h # ref

----------------------------------------------------------------------------
(* The guarded overlay: initial state *)

InitOverlay ==
    /\ isActive = FALSE
    /\ isProcessing = FALSE
    /\ error = ""
    /\ barHeights = Baseline
    /\ cap = NullCap
    /\ isStartingRef = FALSE
    /\ starts = << >>
    /\ handlers = [a1 |-> 0, a2 |-> 0]
    /\ tracks = [k \in Sessions |-> "none"]
    /\ ctxs = [k \in Sessions |-> "none"]
    /\ rafPending = {}
    /\ stopCalls = << >>
    /\ stopFromIdle = FALSE
    /\ acqSinceStop = 0
    /\ mounted = TRUE
    /\ nSignals = 0
    /\ lastOp = "init"
    /\ activation = [hadError |-> FALSE, wasProcessing |-> FALSE,
                     undisturbed |-> FALSE]
    /\ requests = [activations |-> 0, gum |-> 0, failed |-> 0]
    /\ port = << >>
    /\ sends = [posted |-> 0, invoked |-> << >>, inFlight |-> {}, failed |-> {}]
    /\ quiet = FALSE
    /\ failure = [err |-> "", calls |-> << >>]

Idle == cap = NullCap

SignalAllowed == mounted /\ nSignals < MaxSignals

----------------------------------------------------------------------------
(* The floating-expanded listener, lines 333-352 *)

\* faulty variant: line 336 is missing: the error label is not cleared
ActivateTrue_KeepsError ==
    /\ SignalAllowed
    /\ handlers.a1 + handlers.a2 < MaxHandlers
    /\ nSignals' = nSignals + 1
    /\ isActive' = TRUE
    /\ isProcessing' = FALSE
    /\ activation' = [hadError |-> error # "", wasProcessing |-> isProcessing,
                       undisturbed |-> TRUE]
    /\ requests' = [requests EXCEPT !.activations = @ + 1]
    /\ handlers' = [handlers EXCEPT !.a1 = @ + 1]
    /\ lastOp' = "activate"
    /\ UNCHANGED <<error, barHeights, cap, isStartingRef, starts, tracks, ctxs,
                   rafPending, stopCalls, stopFromIdle, acqSinceStop, mounted,
                   port, sends, quiet, failure, encVars, levelVars, recVars>>

\* payload true: lines 334-339, up to the first store read
ActivateTrue ==
    /\ SignalAllowed
    /\ handlers.a1 + handlers.a2 < MaxHandlers
    /\ nSignals' = nSignals + 1
    /\ isActive' = TRUE
    /\ error' = ""
    /\ failure' = [err |-> "", calls |-> << >>]
    /\ isProcessing' = FALSE
    /\ activation' = [hadError |-> error # "", wasProcessing |-> isProcessing,
                       undisturbed |-> TRUE]
    /\ requests' = [requests EXCEPT !.activations = @ + 1]
    /\ handlers' = [handlers EXCEPT !.a1 = @ + 1]
    /\ lastOp' = "activate"
    /\ UNCHANGED <<barHeights, cap, isStartingRef, starts, tracks, ctxs,
                   rafPending, stopCalls, stopFromIdle, acqSinceStop, mounted,
                   port, sends, quiet, encVars, levelVars, recVars>>

\* line 339 resolves; the handler waits for the second store read (line 340)
HandlerFirstRead ==
    /\ handlers.a1 > 0
    /\ handlers' = [a1 |-> handlers.a1 - 1, a2 |-> handlers.a2 + 1]
    /\ lastOp' = "handlerRead"
    /\ UNCHANGED <<isActive, isProcessing, error, barHeights, cap,
                   isStartingRef, starts, tracks, ctxs, rafPending, stopCalls,
                   stopFromIdle, acqSinceStop, mounted, nSignals, activation,
                   requests, port, sends,
                   quiet, failure, encVars, levelVars, recVars>>

\* a store read of the handler rejects: the handler ends without a start
HandlerReadRejects ==
    /\ \/ /\ handlers.a1 > 0
          /\ handlers' = [handlers EXCEPT !.a1 = @ - 1]
       \/ /\ handlers.a2 > 0
          /\ handlers' = [handlers EXCEPT !.a2 = @ - 1]
    /\ lastOp' = "handlerRejected"
    /\ UNCHANGED <<isActive, isProcessing, error, barHeights, cap,
                   isStartingRef, starts, tracks, ctxs, rafPending, stopCalls,
                   stopFromIdle, acqSinceStop, mounted, nSignals, activation,
                   requests, port, sends,
                   quiet, failure, encVars, levelVars, recVars>>

\* line 340 resolves; lines 341-347: the handler calls startAudioCapture()
HandlerCallsStart ==
    /\ handlers.a2 > 0
    /\ handlers' = [handlers EXCEPT !.a2 = @ - 1]
    /\ StartAudioCapture
    /\ UNCHANGED <<isActive, isProcessing, error, barHeights, cap, tracks,
                   ctxs, rafPending, stopCalls, stopFromIdle, acqSinceStop,
                   mounted, nSignals, activation, requests, port, sends,
                   quiet, failure, encVars, levelVars, recVars>>

\* payload false: lines 334, 349-350
ActivateFalse ==
    /\ SignalAllowed
    /\ nSignals' = nSignals + 1
    /\ isActive' = FALSE
    /\ Stopped
    /\ isProcessing' = FALSE
    /\ activation' = [activation EXCEPT !.undisturbed = FALSE]
    /\ quiet' = TRUE
    /\ lastOp' = "deactivate"
    /\ UNCHANGED <<error, isStartingRef, starts, handlers, mounted, requests,
                   port, sends, failure, encVars, levelVars, recVars>>

\* transcription-error listener, lines 354-356
ErrorSignal ==
    /\ SignalAllowed
    /\ nSignals' = nSignals + 1
    /\ error' = "Transcription failed"
    /\ failure' = [err |-> "", calls |-> << >>]
    /\ activation' = [activation EXCEPT !.undisturbed = FALSE]
    /\ lastOp' = "errorSignal"
    /\ UNCHANGED <<isActive, isProcessing, barHeights, cap, isStartingRef,
                   starts, handlers, tracks, ctxs, rafPending, stopCalls,
                   stopFromIdle, acqSinceStop, mounted, requests, port, sends,
                   quiet, encVars, levelVars, recVars>>

\* processing-state listener, lines 358-363
ProcessingSignal ==
    /\ SignalAllowed
    /\ nSignals' = nSignals + 1
    /\ \E payload \in BOOLEAN : isProcessing' = payload
    /\ activation' = [activation EXCEPT !.undisturbed = FALSE]
    /\ lastOp' = "processingSignal"
    /\ UNCHANGED <<isActive, error, barHeights, cap, isStartingRef, starts,
                   handlers, tracks, ctxs, rafPending, stopCalls,
                   stopFromIdle, acqSinceStop, mounted, requests, port, sends,
                   quiet, failure, encVars, levelVars, recVars>>

\* effect cleanup, lines 369-376
Unmount ==
    /\ mounted
    /\ mounted' = FALSE
    /\ Stopped
    /\ quiet' = TRUE
    /\ lastOp' = "unmount"
    /\ UNCHANGED <<isActive, isProcessing, error, isStartingRef, starts,
                   handlers, nSignals, activation, requests, port, sends,
                   failure, encVars, levelVars, recVars>>

----------------------------------------------------------------------------
(* startAudioCapture resumes after an await *)

AtAwait(pc) == {i \in 1..Len(starts) : starts[i].pc = pc}

\* line 255 resolves; the call waits for getUserMedia (line 270)
StartStoreResolves ==
    /\ \E i \in AtAwait("store") : starts' = [starts EXCEPT ![i].pc = "gum"]
    /\ lastOp' = "startStoreRead"
    /\ requests' = [requests EXCEPT !.gum = @ + 1]
    /\ UNCHANGED <<isActive, isProcessing, error, barHeights, cap,
                   isStartingRef, handlers, tracks, ctxs, rafPending,
                   stopCalls, stopFromIdle, acqSinceStop, mounted, nSignals,
                   activation, port, sends,
                   quiet, failure, encVars, levelVars, recVars>>

\* line 255 rejects with something that is no DOMException
StartStoreRejects ==
    /\ \E i \in AtAwait("store") : StartFailed(i, "StoreError")
    /\ lastOp' = "startFailed"
    /\ UNCHANGED <<isActive, isProcessing, handlers, mounted, nSignals,
                   port, sends, encVars, levelVars, recVars>>

\* line 270 resolves with a new stream; lines 273-283 up to addModule
StartGumResolves ==
    /\ \E i \in AtAwait("gum"), k \in Sessions :
        /\ tracks[k] = "none"
        /\ \A j \in Sessions : j < k => tracks[j] # "none"
        /\ tracks' = [tracks EXCEPT ![k] = "live"]
        /\ ctxs' = [ctxs EXCEPT ![k] = "running"]
        /\ cap' = [cap EXCEPT !.streamRef = k, !.audioContextRef = k,
                              !.analyserRef = k]
        /\ starts' = [starts EXCEPT ![i] = [pc |-> "module", local |-> k]]
    /\ acqSinceStop' = acqSinceStop + 1
    /\ lastOp' = "acquired"
    /\ UNCHANGED <<isActive, isProcessing, error, barHeights, isStartingRef,
                   handlers, rafPending, stopCalls, stopFromIdle, mounted,
                   nSignals, activation, requests, port, sends,
                   quiet, failure, encVars,
                   levelVars, recVars>>

\* line 270 rejects
GumErrors == {"NotAllowedError", "NotFoundError", "OverconstrainedError",
              "AbortError", "TypeError"}

StartGumRejects ==
    /\ \E i \in AtAwait("gum"), err \in GumErrors : StartFailed(i, err)
    /\ lastOp' = "startFailed"
    /\ UNCHANGED <<isActive, isProcessing, handlers, mounted, nSignals,
                   port, sends, encVars, levelVars, recVars>>

\* line 283 resolves; lines 284-308 and the finally of line 328.  The nodes are
\* made on the call's own audioContext, whatever audioContextRef holds by now.
StartModuleResolves ==
    /\ \E i \in AtAwait("module") :
        LET h == FreshHandle(rafPending, cap.animationFrameRef)
        IN /\ cap' = [cap EXCEPT !.sourceNodeRef = starts[i].local,
                                 !.workletNodeRef = starts[i].local,
                                 !.animationFrameRef = h]
           /\ rafPending' = rafPending \cup {h}
           /\ starts' = RemoveAt(starts, i)
    /\ isStartingRef' = FALSE
    /\ quiet' = (quiet /\ 0 \in {cap.streamRef, cap.audioContextRef,
                                  cap.analyserRef})
    /\ lastOp' = "started"
    /\ UNCHANGED <<isActive, isProcessing, error, barHeights, handlers,
                   tracks, ctxs, stopCalls, stopFromIdle, acqSinceStop,
                   mounted, nSignals, activation, requests, port, sends,
                   failure, encVars, levelVars, recVars>>

\* line 283 rejects, or a node constructor of lines 284-287 throws on a context
\* that stopAudioCapture has closed meanwhile
StartModuleRejects ==
    /\ \E i \in AtAwait("module") :
        \/ StartFailed(i, "AbortError")
        \/ /\ ctxs[starts[i].local] # "running"
           /\ StartFailed(i, "InvalidStateError")
    /\ lastOp' = "startFailed"
    /\ UNCHANGED <<isActive, isProcessing, handlers, mounted, nSignals,
                   port, sends, encVars, levelVars, recVars>>

----------------------------------------------------------------------------
(* Environment: the animation frame callback and the context's close *)

\* updateBars, lines 184-211, run as the callback of handle h
Tick ==
    \E h \in rafPending :
        /\ IF cap.analyserRef = 0
           THEN /\ rafPending' = rafPending \ {h}
                /\ UNCHANGED <<barHeights, cap>>
                /\ lastOp' = "tickNoAnalyser"
           ELSE /\ \E p \in DataPatterns :
                      barHeights' = UpdateBars(ByteFrequencyData(p))
                /\ LET n == FreshHandle(rafPending \ {h}, cap.animationFrameRef)
                   IN /\ cap' = [cap EXCEPT !.animationFrameRef = n]
                      /\ rafPending' = (rafPending \ {h}) \cup {n}
                /\ lastOp' = "tick"
        /\ UNCHANGED <<isActive, isProcessing, error, isStartingRef, starts,
                       handlers, tracks, ctxs, stopCalls, stopFromIdle,
                       acqSinceStop, mounted, nSignals, activation, requests,
                       port, sends,
                       quiet, failure, encVars, levelVars, recVars>>

\* faulty variant: the completion of a close finishes the teardown on the
\* refs as they are by then
CloseResolved_ClearsRefs(k) ==
    /\ ctxs' = [ctxs EXCEPT ![k] = "closed"]
    /\ cap' = [cap EXCEPT !.audioContextRef = 0, !.analyserRef = 0]

\* line 238: the promise of ctx.close() has no fulfilment handler
CloseResolved(k) ==
    /\ ctxs' = [ctxs EXCEPT ![k] = "closed"]
    /\ UNCHANGED cap

\* faulty variant: the rejection handler shows the failure to the user
CloseRejected_SetsError(k) ==
    /\ ctxs' = [ctxs EXCEPT ![k] = "closeFailed"]
    /\ error' = "Mic error"

\* lines 238-240: the rejection handler logs the error
CloseRejected(k) ==
    /\ ctxs' = [ctxs EXCEPT ![k] = "closeFailed"]
    /\ UNCHANGED error

\* the promise of ctx.close() (line 238) resolves
CloseSettles ==
    \E k \in Sessions :
        /\ ctxs[k] = "closing"
        /\ CloseResolved(k)
        /\ lastOp' = "closeSettled"
        /\ UNCHANGED <<isActive, isProcessing, error, barHeights,
                       isStartingRef, starts, handlers, tracks, rafPending,
                       stopCalls, stopFromIdle, acqSinceStop, mounted,
                       nSignals, activation, requests, port, sends, quiet,
                       failure, encVars, levelVars, recVars>>

\* the promise of ctx.close() (line 238) rejects; what becomes of the
\* context is the browser's affair, no ref holds it any more
CloseRejects ==
    \E k \in Sessions :
        /\ ctxs[k] = "closing"
        /\ CloseRejected(k)
        /\ lastOp' = "closeRejected"
        /\ UNCHANGED <<isActive, isProcessing, barHeights, cap,
                       isStartingRef, starts, handlers, tracks, rafPending,
                       stopCalls, stopFromIdle, acqSinceStop, mounted,
                       nSignals, activation, requests, port, sends, quiet,
                       failure, encVars, levelVars, recVars>>

----------------------------------------------------------------------------
(* Frame hand-off: the worklet's port and workletNode.port.onmessage *)

Range(seq) == {seq[i] : i \in 1..Len(seq)}

\* audio-processor.js 25-31: the AudioProcessor of the wired graph, its
\* context running, posts its next frame
WorkletPosts ==
    /\ cap.workletNodeRef # 0
    /\ ctxs[cap.workletNodeRef] = "running"
    /\ sends.posted < MaxFrames
    /\ sends' = [sends EXCEPT !.posted = @ + 1]
    /\ port' = Append(port, sends.posted + 1)
    /\ lastOp' = "posted"
    /\ UNCHANGED <<isActive, isProcessing, error, barHeights, cap,
                   isStartingRef, starts, handlers, tracks, ctxs, rafPending,
                   stopCalls, stopFromIdle, acqSinceStop, mounted, nSignals,
                   activation, requests,
                   quiet, failure, encVars, levelVars, recVars>>

\* faulty variant: the newest frame waiting on the port is handled first
OnMessage_TakesNewest ==
    /\ port # << >>
    /\ port' = SubSeq(port, 1, Len(port) - 1)
    /\ sends' = [sends EXCEPT !.invoked = Append(@, port[Len(port)]),
                              !.inFlight = @ \cup {port[Len(port)]}]
    /\ lastOp' = "onmessage"
    /\ UNCHANGED <<isActive, isProcessing, error, barHeights, cap,
                   isStartingRef, starts, handlers, tracks, ctxs, rafPending,
                   stopCalls, stopFromIdle, acqSinceStop, mounted, nSignals,
                   activation, requests, quiet, failure, encVars, levelVars,
                   recVars>>

\* lines 290-295: onmessage takes the oldest frame of the port and calls
\* invoke("send_audio_chunk"), whose promise it awaits
OnMessage ==
    /\ port # << >>
    /\ port' = Tail(port)
    /\ sends' = [sends EXCEPT !.invoked = Append(@, Head(port)),
                              !.inFlight = @ \cup {Head(port)}]
    /\ lastOp' = "onmessage"
    /\ UNCHANGED <<isActive, isProcessing, error, barHeights, cap,
                   isStartingRef, starts, handlers, tracks, ctxs, rafPending,
                   stopCalls, stopFromIdle, acqSinceStop, mounted, nSignals,
                   activation, requests,
                   quiet, failure, encVars, levelVars, recVars>>

\* the promise of invoke("send_audio_chunk") for frame f resolves
SendResolves ==
    /\ \E f \in sends.inFlight : sends' = [sends EXCEPT !.inFlight = @ \ {f}]
    /\ lastOp' = "sent"
    /\ UNCHANGED <<isActive, isProcessing, error, barHeights, cap,
                   isStartingRef, starts, handlers, tracks, ctxs, rafPending,
                   stopCalls, stopFromIdle, acqSinceStop, mounted, nSignals,
                   activation, requests, port,
                   quiet, failure, encVars, levelVars, recVars>>

\* faulty variant: the catch block sends the frame again
SendFailed_Resends(f) ==
    sends' = [sends EXCEPT !.invoked = Append(@, f), !.failed = @ \cup {f}]

\* lines 296-298: the catch block of onmessage, for frame f
SendFailed(f) ==
    sends' = [sends EXCEPT !.inFlight = @ \ {f}, !.failed = @ \cup {f}]

\* the promise of invoke("send_audio_chunk") rejects
SendRejects ==
    /\ \E f \in sends.inFlight : SendFailed(f)
    /\ lastOp' = "sendFailed"
    /\ UNCHANGED <<isActive, isProcessing, error, barHeights, cap,
                   isStartingRef, starts, handlers, tracks, ctxs, rafPending,
                   stopCalls, stopFromIdle, acqSinceStop, mounted, nSignals,
                   activation, requests, port,
                   quiet, failure, encVars, levelVars, recVars>>

----------------------------------------------------------------------------
(* What the overlay renders, lines 379-407 *)

\* faulty variant: the error label is tested before isProcessing
Render_ErrorFirst(active, processing, err) ==
    IF ~active THEN "nothing"
    ELSE IF err # "" THEN "error"
    ELSE IF processing THEN "processing"
    ELSE "bars"

\* lines 379-407: `error ?` is false for null and for the empty string
Render(active, processing, err) ==
    IF ~active THEN "nothing"
    ELSE IF processing THEN "processing"
    ELSE IF err # "" THEN "error"
    ELSE "bars"

View == Render(isActive, isProcessing, error)

----------------------------------------------------------------------------
(* The scalar overlay of FloatingWindow.tsx: updateBarsFromLevel *)

BAR_COUNT_FW == 48
MIN_BAR_HEIGHT_FW == 3
MAX_BAR_HEIGHT_FW == 48
NOISE_THRESHOLD_MILLI == 15        \* NOISE_THRESHOLD = 0.015, in thousandths
AMPLIFICATION_FACTOR == 6
WAVE_BASE_PCT == 85                \* WAVE_BASE = 0.85, in hundredths
WAVE_VARIATION_PCT == 15           \* WAVE_VARIATION = 0.15
WAVE_FREQUENCY == 3
LEVEL_PHASE_FACTOR == 2
RANDOM_BASE_PCT == 92              \* RANDOM_BASE = 0.92
RANDOM_RANGE_PCT == 16             \* RANDOM_RANGE = 0.16

\* Floats are kept in fixed point: a value v is the integer nearest below
\* v * FP.  Levels come in thousandths.
FP == 10 ^ 4
LevelDen == 10 ^ 3
PI_FP == (355 * FP) \div 113

\* Math.sqrt of a fixed-point value in [0, 1], by bisection
RECURSIVE SqrtBetween(_, _, _)
SqrtBetween(n, lo, hi) ==
    IF hi - lo <= 1 THEN lo
    ELSE LET mid == (lo + hi) \div 2
         IN IF mid * mid <= n THEN SqrtBetween(n, mid, hi)
            ELSE SqrtBetween(n, lo, mid)

Sqrt(x) == SqrtBetween(x * FP, 0, FP + 1)

\* Math.sin of a fixed-point angle x >= 0: reduced to [0, pi/2], then the
\* Taylor series to the x^9 term
SinSeries(x) ==
    LET x2 == (x * x) \div FP
        t3 == (((x * x2) \div FP)) \div 6
        t5 == ((t3 * x2) \div FP) \div 20
        t7 == ((t5 * x2) \div FP) \div 42
        t9 == ((t7 * x2) \div FP) \div 72
    IN x - t3 + t5 - t7 + t9

Sin(x) ==
    LET r == x % (2 * PI_FP)
        half == IF r > PI_FP THEN r - PI_FP ELSE r
        q == IF 2 * half > PI_FP THEN PI_FP - half ELSE half
        v == SinSeries(q)
    IN IF r > PI_FP THEN -v ELSE v

BaselineFw == [i \in 1..BAR_COUNT_FW |-> MIN_BAR_HEIGHT_FW * FP]

\* Math.random() of line 245, one value per bar, in fixed point: [0, 1)
RandomProfiles == {"low", "mid", "high", "mixed"}

Random(profile, i) ==
    CASE profile = "low" -> 0
      [] profile = "mid" -> FP \div 2
      [] profile = "high" -> FP - 1
      [] OTHER -> IF i % 2 = 0 THEN FP - 1 ELSE 0

\* line 217: the noise gate
NoiseGated(level) == level < NOISE_THRESHOLD_MILLI

\* faulty variant: the gate returns without calling setBarHeights
GatedBars_KeepsBars == fwBarHeights

\* line 218: what the gate sets
GatedBars == BaselineFw

\* lines 223-224
AdjustedLevel(level) ==
    ((level - NOISE_THRESHOLD_MILLI) * FP) \div (LevelDen - NOISE_THRESHOLD_MILLI)

\* faulty variant: Math.min(1.0, ...) is missing
AmplifiedLevel_NoClamp(level) ==
    Sqrt(AdjustedLevel(level)) * AMPLIFICATION_FACTOR

AmplifiedLevel(level) == Min(FP, Sqrt(AdjustedLevel(level)) * AMPLIFICATION_FACTOR)

\* lines 227-251: the height of bar i (0-based)
LevelBarHeight(amplifiedLevel, i, random) ==
    LET t == (i * FP) \div (BAR_COUNT_FW - 1)
        envelope == Sin((t * PI_FP) \div FP)
        envelopeStrong == (envelope * envelope) \div FP
        waveModulation ==
            (WAVE_BASE_PCT * FP) \div 100
            + (WAVE_VARIATION_PCT
                 * Sin(((t * PI_FP) \div FP) * WAVE_FREQUENCY
                       + amplifiedLevel * LEVEL_PHASE_FACTOR)) \div 100
        waveEffect == (envelopeStrong * waveModulation) \div FP
        randomFactor == (RANDOM_BASE_PCT * FP) \div 100
                        + (random * RANDOM_RANGE_PCT) \div 100
    IN MIN_BAR_HEIGHT_FW * FP
       + ((((amplifiedLevel * waveEffect) \div FP) * randomFactor) \div FP)
           * (MAX_BAR_HEIGHT_FW - MIN_BAR_HEIGHT_FW)

\* lines 215-254
UpdateBarsFromLevel(level, profile) ==
    IF NoiseGated(level)
    THEN GatedBars
    ELSE [b \in 1..BAR_COUNT_FW |->
            LevelBarHeight(AmplifiedLevel(level), b - 1, Random(profile, b - 1))]

\* payloads of the audio-level signal, in thousandths
Levels == {0, 14, 15, 16, 41, 43, 100, 500, 1000}

\* updateBarsFromLevel for every payload and every run of Math.random()
LevelBars ==
    [level \in Levels, profile \in RandomProfiles |->
        UpdateBarsFromLevel(level, profile)]

\* DEFAULT_MODES of useSettings.ts
ModeIds == {"none", "vibe-coding", "professional-email"}

EmptyStore == [activeMode |-> "", skipRulesOnce |-> "", transcriptionRules |-> ""]

InitLevel ==
    /\ fwIsActive = FALSE
    /\ fwIsProcessing = FALSE
    /\ fwError = ""
    /\ fwBarHeights = BaselineFw
    /\ fwHandlers = 0
    /\ fwLevel = 0
    /\ fwBarsBefore = BaselineFw
    /\ fwSignals = 0
    /\ fwLastOp = "init"
    /\ fwActiveMode = "none"
    /\ fwSkipRules = FALSE
    /\ fwHasEnabledRules = FALSE
    /\ fwWrites = << >>

\* settings.json before anything was saved
InitStore == fwStore = EmptyStore

FwSignalAllowed == fwSignals < MaxLevelSignals

\* floating-expanded listener, payload true: lines 302-307 up to the first await
FwActivateTrue ==
    /\ FwSignalAllowed
    /\ fwSignals' = fwSignals + 1
    /\ fwIsActive' = TRUE
    /\ fwError' = ""
    /\ fwIsProcessing' = FALSE
    /\ fwHandlers' = fwHandlers + 1
    /\ fwSkipRules' = FALSE
    /\ fwLastOp' = "activate"
    /\ UNCHANGED <<fwBarHeights, fwLevel, fwBarsBefore, fwActiveMode,
                   fwHasEnabledRules, fwStore, fwWrites, overlayVars, encVars,
                   recVars>>

\* lines 261-276: what loadModeAndRules leaves in activeMode and
\* hasEnabledRules when `reads` of its two store reads resolve
LoadModeAndRules(reads) ==
    /\ fwActiveMode' = IF reads >= 1 /\ fwStore'.activeMode # ""
                       THEN fwStore'.activeMode ELSE fwActiveMode
    /\ fwHasEnabledRules' = IF reads >= 2 /\ fwStore'.transcriptionRules # ""
                            THEN fwStore'.transcriptionRules = "enabled"
                            ELSE fwHasEnabledRules

\* lines 307-320: the store.set of the handler resolves and so do its two
\* store reads; the handler sets the shortcut labels, which are not part of
\* this model, and calls loadModeAndRules
FwHandlerCompletes ==
    /\ fwHandlers > 0
    /\ fwHandlers' = fwHandlers - 1
    /\ fwStore' = [fwStore EXCEPT !.skipRulesOnce = "false"]
    /\ \E reads \in 0..2 : LoadModeAndRules(reads)
    /\ fwLastOp' = "handlerDone"
    /\ UNCHANGED <<fwIsActive, fwIsProcessing, fwError, fwBarHeights, fwLevel,
                   fwBarsBefore, fwSignals, fwSkipRules, fwWrites, overlayVars,
                   encVars, recVars>>

\* line 307 rejects (the key is not written), or a read of lines 308-313
\* rejects (it is): the handler ends there
FwHandlerRejects ==
    /\ fwHandlers > 0
    /\ fwHandlers' = fwHandlers - 1
    /\ \E written \in BOOLEAN :
        fwStore' = IF written THEN [fwStore EXCEPT !.skipRulesOnce = "false"]
                   ELSE fwStore
    /\ fwLastOp' = "handlerRejected"
    /\ UNCHANGED <<fwIsActive, fwIsProcessing, fwError, fwBarHeights, fwLevel,
                   fwBarsBefore, fwSignals, fwActiveMode, fwSkipRules,
                   fwHasEnabledRules, fwWrites, overlayVars, encVars, recVars>>

\* floating-expanded listener, payload false: lines 302, 323-324 (resetBars)
FwActivateFalse ==
    /\ FwSignalAllowed
    /\ fwSignals' = fwSignals + 1
    /\ fwIsActive' = FALSE
    /\ fwBarHeights' = BaselineFw
    /\ fwIsProcessing' = FALSE
    /\ fwLastOp' = "deactivate"
    /\ UNCHANGED <<fwError, fwHandlers, fwLevel, fwBarsBefore, modeVars,
                   overlayVars,
                   encVars, recVars>>

\* audio-level listener, lines 330-332
FwAudioLevel ==
    /\ FwSignalAllowed
    /\ fwSignals' = fwSignals + 1
    /\ \E level \in Levels, profile \in RandomProfiles :
        /\ fwLevel' = level
        /\ fwBarHeights' = LevelBars[level, profile]
    /\ fwBarsBefore' = fwBarHeights
    /\ fwLastOp' = "audioLevel"
    /\ UNCHANGED <<fwIsActive, fwIsProcessing, fwError, fwHandlers, modeVars,
                   overlayVars,
                   encVars, recVars>>

\* transcription-error listener, lines 334-336
FwErrorSignal ==
    /\ FwSignalAllowed
    /\ fwSignals' = fwSignals + 1
    /\ fwError' = "Transcription failed"
    /\ fwLastOp' = "errorSignal"
    /\ UNCHANGED <<fwIsActive, fwIsProcessing, fwBarHeights, fwHandlers,
                   fwLevel,
                   fwBarsBefore, modeVars, overlayVars,
                   encVars, recVars>>

\* processing-state listener, lines 338-343
FwProcessingSignal ==
    /\ FwSignalAllowed
    /\ fwSignals' = fwSignals + 1
    /\ \E payload \in BOOLEAN : fwIsProcessing' = payload
    /\ fwLastOp' = "processingSignal"
    /\ UNCHANGED <<fwIsActive, fwError, fwBarHeights, fwHandlers, fwLevel,
                   fwBarsBefore, modeVars, overlayVars,
                   encVars, recVars>>

\* lines 393-459: the dropdown is rendered
MenuShown == fwIsActive /\ ~fwIsProcessing /\ fwError = ""

\* faulty variant: the menu handler also clears the error label and the bars
MenuCall_Resets(key, value) ==
    /\ fwWrites' = Append(fwWrites, [key |-> key, value |-> value])
    /\ fwError' = ""
    /\ fwBarHeights' = BaselineFw
    /\ UNCHANGED <<fwIsActive, fwIsProcessing, fwHandlers, fwLevel,
                   fwBarsBefore, fwStore, overlayVars, encVars, recVars>>

\* lines 280-281 and 289-290: store.set is called and awaited
MenuCall(key, value) ==
    /\ fwWrites' = Append(fwWrites, [key |-> key, value |-> value])
    /\ UNCHANGED <<fwIsActive, fwIsProcessing, fwError, fwBarHeights,
                   fwHandlers, fwLevel, fwBarsBefore, fwStore, overlayVars,
                   encVars, recVars>>

\* updateActiveMode(modeId), lines 287-290, from the click of line 420
FwUpdateActiveMode ==
    /\ FwSignalAllowed
    /\ MenuShown
    /\ fwSignals' = fwSignals + 1
    /\ \E modeId \in ModeIds :
        /\ fwActiveMode' = modeId
        /\ MenuCall("activeMode", modeId)
    /\ fwLastOp' = "updateActiveMode"
    /\ UNCHANGED <<fwSkipRules, fwHasEnabledRules>>

\* setRulesMode(skip), lines 278-281, from the clicks of lines 436 and 447
FwSetRulesMode ==
    /\ FwSignalAllowed
    /\ MenuShown
    /\ fwActiveMode = "none"
    /\ fwHasEnabledRules
    /\ fwSignals' = fwSignals + 1
    /\ \E skip \in BOOLEAN :
        /\ fwSkipRules' = skip
        /\ MenuCall("skipRulesOnce", IF skip THEN "true" ELSE "false")
    /\ fwLastOp' = "setRulesMode"
    /\ UNCHANGED <<fwActiveMode, fwHasEnabledRules>>

\* the store.set of lines 281 / 290 resolves: the key is written
FwStoreSetResolves ==
    /\ fwWrites # << >>
    /\ fwWrites' = Tail(fwWrites)
    /\ fwStore' = [fwStore EXCEPT ![Head(fwWrites).key] = Head(fwWrites).value]
    /\ fwLastOp' = "storeSetResolved"
    /\ UNCHANGED <<fwIsActive, fwIsProcessing, fwError, fwBarHeights,
                   fwHandlers, fwLevel, fwBarsBefore, fwSignals, fwActiveMode,
                   fwSkipRules, fwHasEnabledRules, overlayVars, encVars,
                   recVars>>

\* the store.set rejects: lines 282-284 / 291-293 log it
FwStoreSetRejects ==
    /\ fwWrites # << >>
    /\ fwWrites' = Tail(fwWrites)
    /\ fwLastOp' = "storeSetRejected"
    /\ UNCHANGED <<fwIsActive, fwIsProcessing, fwError, fwBarHeights,
                   fwHandlers, fwLevel, fwBarsBefore, fwSignals, fwActiveMode,
                   fwSkipRules, fwHasEnabledRules, fwStore, overlayVars,
                   encVars, recVars>>

NextLevel ==
    \/ FwActivateTrue
    \/ FwHandlerCompletes
    \/ FwHandlerRejects
    \/ FwActivateFalse
    \/ FwAudioLevel
    \/ FwErrorSignal
    \/ FwProcessingSignal

----------------------------------------------------------------------------
(* The recorder hooks: useRealtimeTranscription over useAudioRecorder *)

NullRec == [isRecording |-> FALSE, audioContextRef |-> 0, workletNodeRef |-> 0,
            streamRef |-> 0]

InitRec ==
    /\ rt = [isRecording |-> FALSE, isRecordingRef |-> FALSE]
    /\ rec = NullRec
    /\ recCalls = << >>
    /\ recTracks = [k \in Sessions |-> "none"]
    /\ recCtxs = [k \in Sessions |-> "none"]
    /\ recOps = 0
    /\ recLastOp = "init"
    /\ recToggles = << >>
    /\ recWorklets = [k \in Sessions |-> "none"]
    /\ recPort = << >>
    /\ recSends = [posted |-> 0, invoked |-> << >>, dropped |-> << >>]

RecAt(pc) == {i \in 1..Len(recCalls) : recCalls[i].pc = pc}

\* a startRecording call is suspended at one of its awaits
StartInFlight == RecAt("invokeStart") \cup RecAt("gum") \cup RecAt("module") # {}

\* useRealtimeTranscription.startRecording, lines 26-37, up to the await of
\* invoke("start_recording")
RtStartRecording ==
    \E hasKey \in BOOLEAN :
        IF ~hasKey
        THEN /\ recLastOp' = "startNoKey"
             /\ recToggles' = Append(recToggles, "startNoKey")
             /\ UNCHANGED <<rt, rec, recCalls, recTracks, recCtxs, recWorklets>>
        ELSE /\ rt' = [isRecording |-> TRUE, isRecordingRef |-> TRUE]
             /\ recCalls' = Append(recCalls,
                                   [pc |-> "invokeStart", local |-> 0])
             /\ recLastOp' = "start"
             /\ recToggles' = Append(recToggles, "start")
             /\ UNCHANGED <<rec, recTracks, recCtxs, recWorklets>>

\* useAudioRecorder.stopRecording, lines 254-276
StopAudio ==
    /\ rec' = NullRec
    /\ recTracks' = IF rec.streamRef # 0
                    THEN [recTracks EXCEPT ![rec.streamRef] = "ended"]
                    ELSE recTracks
    /\ recCtxs' = IF rec.audioContextRef # 0
                  THEN [recCtxs EXCEPT ![rec.audioContextRef] = "closed"]
                  ELSE recCtxs
    /\ recWorklets' = IF rec.workletNodeRef # 0
                      THEN [recWorklets EXCEPT
                                ![rec.workletNodeRef] = "disconnected"]
                      ELSE recWorklets

\* useRealtimeTranscription.stopRecording, lines 46-50, up to the await of
\* invoke("stop_recording")
RtStopRecording ==
    /\ rt' = [rt EXCEPT !.isRecordingRef = FALSE]
    /\ StopAudio
    /\ recCalls' = Append(recCalls, [pc |-> "invokeStop", local |-> 0])
    /\ recToggles' = Append(recToggles, IF StartInFlight THEN "stopDuringStart"
                                        ELSE "stop")
    /\ recLastOp' = "stop"

\* toggleRecording, lines 57-63
ToggleRecording ==
    /\ recOps < MaxRecOps
    /\ recOps' = recOps + 1
    /\ IF rt.isRecordingRef THEN RtStopRecording ELSE RtStartRecording
    /\ UNCHANGED <<recPort, recSends, overlayVars, encVars, levelVars>>

\* lines 39-43: catch of useRealtimeTranscription.startRecording, for call i
RtStartFailed(i) ==
    /\ rt' = [isRecording |-> FALSE, isRecordingRef |-> FALSE]
    /\ recCalls' = RemoveAt(recCalls, i)
    /\ recLastOp' = "startFailed"

\* line 37 resolves; startAudio() runs up to the await of getUserMedia
\* (useAudioRecorder lines 198-202)
RtInvokeStartResolves ==
    /\ \E i \in RecAt("invokeStart") :
        recCalls' = [recCalls EXCEPT ![i].pc = "gum"]
    /\ recLastOp' = "startInvoked"
    /\ UNCHANGED <<rt, rec, recTracks, recCtxs, recOps, recToggles,
                   recWorklets, recPort, recSends, overlayVars, encVars,
                   levelVars>>

\* line 37 rejects
RtInvokeStartRejects ==
    /\ \E i \in RecAt("invokeStart") : RtStartFailed(i)
    /\ UNCHANGED <<rec, recTracks, recCtxs, recOps, recToggles,
                   recWorklets, recPort, recSends, overlayVars, encVars,
                   levelVars>>

\* getUserMedia resolves: useAudioRecorder lines 211-222 up to the await of
\* addModule
RecGumResolves ==
    /\ \E i \in RecAt("gum"), k \in Sessions :
        /\ recTracks[k] = "none"
        /\ \A j \in Sessions : j < k => recTracks[j] # "none"
        /\ recTracks' = [recTracks EXCEPT ![k] = "live"]
        /\ recCtxs' = [recCtxs EXCEPT ![k] = "running"]
        /\ rec' = [rec EXCEPT !.streamRef = k, !.audioContextRef = k]
        /\ recCalls' = [recCalls EXCEPT ![i] = [pc |-> "module", local |-> k]]
    /\ recLastOp' = "acquired"
    /\ UNCHANGED <<rt, recOps, recToggles,
                   recWorklets, recPort, recSends, overlayVars, encVars, levelVars>>

\* getUserMedia rejects: lines 248-250 rethrow, the caller's catch handles it
RecGumRejects ==
    /\ \E i \in RecAt("gum") : RtStartFailed(i)
    /\ UNCHANGED <<rec, recTracks, recCtxs, recOps, recToggles,
                   recWorklets, recPort, recSends, overlayVars, encVars,
                   levelVars>>

\* addModule resolves: lines 225-247, then the caller's startRecording returns
RecModuleResolves ==
    /\ \E i \in RecAt("module") :
        /\ rec' = [rec EXCEPT !.workletNodeRef = recCalls[i].local,
                              !.isRecording = TRUE]
        /\ recWorklets' = [recWorklets EXCEPT ![recCalls[i].local] = "wired"]
        /\ recCalls' = RemoveAt(recCalls, i)
    /\ recLastOp' = "started"
    /\ UNCHANGED <<rt, recTracks, recCtxs, recOps, recToggles, recPort,
                   recSends, overlayVars, encVars, levelVars>>

\* addModule rejects, or a node constructor of lines 225-226 throws on a
\* context that stopRecording has closed: lines 248-250 rethrow, the caller's
\* catch (39-43) handles it.  Neither catch releases anything.
RecModuleRejects ==
    /\ \E i \in RecAt("module") : RtStartFailed(i)
    /\ UNCHANGED <<rec, recTracks, recCtxs, recOps, recToggles,
                   recWorklets, recPort, recSends, overlayVars, encVars,
                   levelVars>>

\* line 50 resolves: line 51
RtInvokeStopResolves ==
    /\ \E i \in RecAt("invokeStop") : recCalls' = RemoveAt(recCalls, i)
    /\ rt' = [rt EXCEPT !.isRecording = FALSE]
    /\ recLastOp' = "stopped"
    /\ UNCHANGED <<rec, recTracks, recCtxs, recOps, recToggles,
                   recWorklets, recPort, recSends, overlayVars, encVars,
                   levelVars>>

\* line 50 rejects: lines 52-54 log it
RtInvokeStopRejects ==
    /\ \E i \in RecAt("invokeStop") : recCalls' = RemoveAt(recCalls, i)
    /\ recLastOp' = "stopFailed"
    /\ UNCHANGED <<rt, rec, recTracks, recCtxs, recOps, recToggles,
                   recWorklets, recPort, recSends, overlayVars, encVars,
                   levelVars>>

\* audio-processor.js 25-31: the AudioProcessor of a wired graph whose
\* context is running posts its next frame
RecWorkletPosts ==
    /\ recSends.posted < MaxFrames
    /\ \E k \in Sessions : recWorklets[k] = "wired" /\ recCtxs[k] = "running"
    /\ recSends' = [recSends EXCEPT !.posted = @ + 1]
    /\ recPort' = Append(recPort, recSends.posted + 1)
    /\ recLastOp' = "posted"
    /\ UNCHANGED <<rt, rec, recCalls, recTracks, recCtxs, recOps, recToggles,
                   recWorklets, overlayVars, encVars, levelVars>>

\* faulty variant: line 12 is missing, every chunk is forwarded
HandleAudioChunk_NoGate(chunk) ==
    /\ recSends' = [recSends EXCEPT !.invoked = Append(@, chunk)]
    /\ recLastOp' = "chunkSent"

\* handleAudioChunk, useRealtimeTranscription lines 11-21; the settling of
\* the invoke promise changes nothing (lines 17-19 log a rejection)
HandleAudioChunk(chunk) ==
    IF ~rt.isRecordingRef
    THEN /\ recSends' = [recSends EXCEPT !.dropped = Append(@, chunk)]
         /\ recLastOp' = "chunkDropped"
    ELSE /\ recSends' = [recSends EXCEPT !.invoked = Append(@, chunk)]
         /\ recLastOp' = "chunkSent"

\* workletNode.port.onmessage, useAudioRecorder lines 230-240: the oldest
\* frame of the port goes to onAudioChunk
RecOnMessage ==
    /\ recPort # << >>
    /\ recPort' = Tail(recPort)
    /\ HandleAudioChunk(Head(recPort))
    /\ UNCHANGED <<rt, rec, recCalls, recTracks, recCtxs, recOps, recToggles,
                   recWorklets, overlayVars, encVars, levelVars>>

----------------------------------------------------------------------------
(* AudioProcessor: the frame encoder of audio-processor.js *)

bufferSize == 2400

\* A sample is a float; it is kept as an integer numerator over SampleDen, a
\* power of two, so that every sample is exact as a Float32.
SampleDen == 2 ^ 10

Waves == {"sweep", "loud"}

\* the sample the microphone delivers at position p of the stream
Sample(w, p) ==
    IF w = "sweep"
    THEN ((p * 37) % (2 * SampleDen + 1)) - SampleDen
    ELSE ((p * 211) % (3 * SampleDen)) - ((3 * SampleDen) \div 2)

\* inputs[0][0] of the process() call that delivers positions from .. from+len-1
InputChannel(w, from, len) == [i \in 1..len |-> Sample(w, from + i - 1)]

\* conversion of a number to an Int16Array element: truncate, wrap to 16 bits
Truncate(num, den) == IF num < 0 THEN -((-num) \div den) ELSE num \div den

ToInt16(n) == ((n + 2 ^ 15) % 2 ^ 16) - 2 ^ 15

\* faulty variant: line 21 is missing: the sample is scaled without the clamp
Quantize_NoClamp(x) ==
    ToInt16(Truncate(IF x < 0 THEN x * 2 ^ 15 ELSE x * (2 ^ 15 - 1), SampleDen))

\* lines 21-22
Quantize(x) ==
    LET s == Max(-SampleDen, Min(SampleDen, x))
    IN ToInt16(Truncate(IF s < 0 THEN s * 2 ^ 15 ELSE s * (2 ^ 15 - 1), SampleDen))

\* new Float32Array(this.bufferSize)
EmptyBuffer == [j \in 0..(bufferSize - 1) |-> 0]

\* The arrays the AudioProcessor allocates are numbered in the order of their
\* allocation.  `arrays` holds the number of the array this.buffer is, the
\* numbers of the arrays posted as frames, the number of arrays allocated so
\* far, and the posted arrays written to after they were posted.

\* a write to array id
Written(arrays, id) ==
    IF \E f \in 1..Len(arrays.frameIds) : arrays.frameIds[f] = id
    THEN [arrays EXCEPT !.touched = @ \cup {id}]
    ELSE arrays

\* faulty variant: the Int16Array is allocated for the first frame and used
\* again for the frames after it
Emit_ReusesFrame(arrays) ==
    LET first == arrays.frameIds = << >>
        frame == IF first THEN arrays.allocated + 1 ELSE arrays.frameIds[1]
        filled == Written([arrays EXCEPT
                               !.allocated = IF first THEN frame ELSE @],
                          frame)
    IN [filled EXCEPT !.frameIds = Append(@, frame),
                      !.bufferId = filled.allocated + 1,
                      !.allocated = @ + 1]

\* lines 19-34: new Int16Array (19), filled (20-23), posted with its buffer
\* in the transfer list (25-31); new Float32Array for this.buffer (33)
Emit(arrays) ==
    LET frame == arrays.allocated + 1
        filled == Written([arrays EXCEPT !.allocated = frame], frame)
    IN [filled EXCEPT !.frameIds = Append(@, frame),
                      !.bufferId = frame + 1,
                      !.allocated = frame + 1]

\* the constructor, lines 2-7
NewEncoder == [buffer |-> EmptyBuffer, bufferIndex |-> 0, posted |-> << >>,
               arrays |-> [bufferId |-> 1, frameIds |-> << >>,
                           allocated |-> 1, touched |-> {}]]

\* lines 19-23: the Int16Array of a full buffer
Int16Frame(buffer) == [j \in 1..bufferSize |-> Quantize(buffer[j - 1])]

\* faulty variant: line 18 compares with > instead of >=
ProcessSample_OffByOne(st, x) ==
    LET buffer == IF st.bufferIndex < bufferSize
                  THEN [st.buffer EXCEPT ![st.bufferIndex] = x]
                  ELSE st.buffer
        index == st.bufferIndex + 1
        arrays == Written(st.arrays, st.arrays.bufferId)
    IN IF index > bufferSize
       THEN [buffer |-> EmptyBuffer, bufferIndex |-> 0,
             posted |-> Append(st.posted, Int16Frame(buffer)),
             arrays |-> Emit(arrays)]
       ELSE [buffer |-> buffer, bufferIndex |-> index, posted |-> st.posted,
             arrays |-> arrays]

\* lines 16-35: the body of the loop, for one sample
ProcessSample(st, x) ==
    LET buffer == [st.buffer EXCEPT ![st.bufferIndex] = x]
        index == st.bufferIndex + 1
        arrays == Written(st.arrays, st.arrays.bufferId)
    IN IF index >= bufferSize
       THEN [buffer |-> EmptyBuffer, bufferIndex |-> 0,
             posted |-> Append(st.posted, Int16Frame(buffer)),
             arrays |-> Emit(arrays)]
       ELSE [buffer |-> buffer, bufferIndex |-> index, posted |-> st.posted,
             arrays |-> arrays]

\* line 15: for (i = lo; i < hi; i++), the samples taken in order.  The range
\* is halved, and the first half evaluated before the second is entered (the
\* test on bufferIndex, which always holds, does that), only to keep the depth
\* of the evaluation logarithmic.
RECURSIVE ProcessRange(_, _, _, _)
ProcessRange(st, inputChannel, lo, hi) ==
    IF lo >= hi THEN st
    ELSE IF hi = lo + 1 THEN ProcessSample(st, inputChannel[lo])
    ELSE LET mid == (lo + hi) \div 2
             first == ProcessRange(st, inputChannel, lo, mid)
         IN IF first.bufferIndex < bufferSize
            THEN ProcessRange(first, inputChannel, mid, hi)
            ELSE first

\* faulty variant: the write position restarts at 0 in every call
Process_RestartsIndex(st, inputChannel) ==
    ProcessRange([st EXCEPT !.bufferIndex = 0], inputChannel, 1,
                 Len(inputChannel) + 1)

\* lines 9-39, for a call that has an input channel
Process(st, inputChannel) ==
    ProcessRange(st, inputChannel, 1, Len(inputChannel) + 1)

ChunkLens == {0, 1, 128, 2399, 2400, 2401, 4800}

InitEnc ==
    /\ InitOverlay
    /\ InitLevel
    /\ InitStore
    /\ InitRec
    /\ enc = NewEncoder
    /\ wave \in Waves
    /\ fed = 0
    /\ nCalls = 0
    /\ lastLen = -1
    /\ session = [n |-> 1, live |-> TRUE, origin |-> 0, dropped |-> 0,
                  op |-> "start"]

\* the overlay before any AudioWorkletNode, hence any AudioProcessor, exists
NoEncoder == [buffer |-> << >>, bufferIndex |-> 0, posted |-> << >>,
              arrays |-> [bufferId |-> 0, frameIds |-> << >>,
                          allocated |-> 0, touched |-> {}]]

InitEncRest ==
    /\ enc = NoEncoder
    /\ wave = "sweep"
    /\ fed = 0
    /\ nCalls = 0
    /\ lastLen = -1
    /\ session = [n |-> 0, live |-> FALSE, origin |-> 0, dropped |-> 0,
                  op |-> "none"]

\* process(inputs) with inputs[0][0] present: the graph is wired
ProcessCall ==
    /\ session.live
    /\ nCalls < MaxCalls
    /\ \E len \in ChunkLens :
        /\ fed + len <= MaxSamples
        /\ enc' = Process(enc, InputChannel(wave, session.origin + fed, len))
        /\ fed' = fed + len
        /\ lastLen' = len
    /\ nCalls' = nCalls + 1
    /\ session' = [session EXCEPT !.op = "process"]
    /\ UNCHANGED <<wave, overlayVars, levelVars, recVars>>

\* process(inputs) with no input connected: line 11 returns
ProcessNoInput ==
    /\ nCalls < MaxCalls
    /\ nCalls' = nCalls + 1
    /\ lastLen' = -1
    /\ session' = [session EXCEPT !.op = "noInput"]
    /\ UNCHANGED <<enc, wave, fed, overlayVars, levelVars, recVars>>

\* stopAudioCapture (part_009 221-241) takes the graph apart and closes the
\* context: the AudioProcessor gets no further input and is not told
EncStop ==
    /\ session.live
    /\ session' = [session EXCEPT !.live = FALSE, !.dropped = enc.bufferIndex,
                                  !.op = "stop"]
    /\ UNCHANGED <<enc, wave, fed, nCalls, lastLen, overlayVars, levelVars,
                   recVars>>

\* faulty variant: the processor of the session before is used again
EncStart_ReusesProcessor ==
    /\ ~session.live
    /\ session.n < MaxEncSessions
    /\ enc' = [enc EXCEPT !.posted = << >>]
    /\ fed' = 0
    /\ session' = [n |-> session.n + 1, live |-> TRUE,
                   origin |-> session.origin + fed,
                   dropped |-> session.dropped, op |-> "start"]
    /\ UNCHANGED <<wave, nCalls, lastLen, overlayVars, levelVars, recVars>>

\* startAudioCapture (part_009 283-304): a new context, a new
\* AudioWorkletNode and with it a new AudioProcessor (constructor, lines 2-7)
\* with a port of its own; the stream goes on where it was
EncStart ==
    /\ ~session.live
    /\ session.n < MaxEncSessions
    /\ enc' = NewEncoder
    /\ fed' = 0
    /\ session' = [n |-> session.n + 1, live |-> TRUE,
                   origin |-> session.origin + fed,
                   dropped |-> session.dropped, op |-> "start"]
    /\ UNCHANGED <<wave, nCalls, lastLen, overlayVars, levelVars, recVars>>

NextEnc == ProcessCall \/ ProcessNoInput

SpecEnc == InitEnc /\ [][NextEnc]_vars

\* The encoder over several capture sessions
InitSessions == InitEnc

NextSessions == ProcessCall \/ EncStop \/ EncStart

SpecSessions == InitSessions /\ [][NextSessions]_vars

----------------------------------------------------------------------------
Init == InitOverlay /\ InitEncRest /\ InitLevel /\ InitStore /\ InitRec

Next ==
    \/ ActivateTrue
    \/ HandlerFirstRead
    \/ HandlerReadRejects
    \/ HandlerCallsStart
    \/ ActivateFalse
    \/ ErrorSignal
    \/ ProcessingSignal
    \/ Unmount
    \/ StartStoreResolves
    \/ StartStoreRejects
    \/ StartGumResolves
    \/ StartGumRejects
    \/ StartModuleResolves
    \/ StartModuleRejects
    \/ Tick
    \/ CloseSettles

Spec == Init /\ [][Next]_vars

\* The teardown path of the guarded overlay: sessions are started, stopped
\* and started again while the closes of their contexts resolve or reject.
InitClose == InitOverlay /\ InitEncRest /\ InitLevel /\ InitStore /\ InitRec

NextClose ==
    \/ ActivateTrue
    \/ HandlerFirstRead
    \/ HandlerCallsStart
    \/ ActivateFalse
    \/ ErrorSignal
    \/ StartStoreResolves
    \/ StartGumResolves
    \/ StartGumRejects
    \/ StartModuleResolves
    \/ StartModuleRejects
    \/ Tick
    \/ CloseSettles
    \/ CloseRejects

SpecClose == InitClose /\ [][NextClose]_vars

\* The frame path of the guarded overlay: sessions are started and stopped,
\* the worklet posts frames and onmessage hands them to the transport.
InitSend == InitOverlay /\ InitEncRest /\ InitLevel /\ InitStore /\ InitRec

NextSend ==
    \/ ActivateTrue
    \/ HandlerFirstRead
    \/ HandlerCallsStart
    \/ ActivateFalse
    \/ StartStoreResolves
    \/ StartGumResolves
    \/ StartGumRejects
    \/ StartModuleResolves
    \/ CloseSettles
    \/ WorkletPosts
    \/ OnMessage
    \/ SendResolves
    \/ SendRejects

SpecSend == InitSend /\ [][NextSend]_vars

InitLevelSpec == InitOverlay /\ InitEncRest /\ InitLevel /\ InitStore /\ InitRec

SpecLevel == InitLevelSpec /\ [][NextLevel]_vars

\* The scalar overlay with its mode menu.  settings.json may hold a mode and
\* rules saved by the settings window.
InitMode ==
    /\ InitOverlay
    /\ InitEncRest
    /\ InitLevel
    /\ InitRec
    /\ fwStore \in [activeMode : {"", "vibe-coding"}, skipRulesOnce : {""},
                     transcriptionRules : {"", "enabled"}]

NextMode ==
    \/ FwActivateTrue
    \/ FwHandlerCompletes
    \/ FwHandlerRejects
    \/ FwActivateFalse
    \/ FwAudioLevel
    \/ FwErrorSignal
    \/ FwProcessingSignal
    \/ FwUpdateActiveMode
    \/ FwSetRulesMode
    \/ FwStoreSetResolves
    \/ FwStoreSetRejects

SpecMode == InitMode /\ [][NextMode]_vars


\* The recorder hooks behind the Test Recording button
InitRecSpec == InitOverlay /\ InitEncRest /\ InitLevel /\ InitStore /\ InitRec

NextRec ==
    \/ ToggleRecording
    \/ RtInvokeStartResolves
    \/ RtInvokeStartRejects
    \/ RecGumResolves
    \/ RecGumRejects
    \/ RecModuleResolves
    \/ RecModuleRejects
    \/ RtInvokeStopResolves
    \/ RtInvokeStopRejects
    \/ RecWorkletPosts
    \/ RecOnMessage

SpecRec == InitRecSpec /\ [][NextRec]_vars

----------------------------------------------------------------------------
(* Claims about the guarded overlay *)

LiveStreams == {k \in Sessions : tracks[k] = "live"}

\* no handler, start call or close is pending
Settled ==
    /\ handlers = [a1 |-> 0, a2 |-> 0]
    /\ starts = << >>
    /\ \A k \in Sessions : ctxs[k] # "closing"

GraphRefs == {cap.streamRef, cap.audioContextRef, cap.analyserRef,
              cap.sourceNodeRef, cap.workletNodeRef}

\* C1: once the handlers of an activation(true) and a following
\* activation(false) and their awaits have settled, no capture resource is
\* held and the bars are at the baseline.
C1_DeactivationReleasesCapture ==
    (~isActive /\ Settled) =>
        /\ Idle
        /\ rafPending = {}
        /\ LiveStreams = {}
        /\ barHeights = Baseline

\* C2: at most one stream is acquired and not stopped, at most one start call
\* is in flight (a call made while one is in flight or while a session is live
\* issues no device request), and no second stream is acquired without a stop
\* in between.
C2_SingleAcquisition ==
    /\ Cardinality(LiveStreams) <= 1
    /\ Len(starts) <= 1
    /\ acqSinceStop <= 1

C2_Witness ==
    /\ lastOp = "startNoop"
    /\ Cardinality(LiveStreams) = 1
    /\ acqSinceStop = 1

\* C3: whenever no start call is in flight, the five capture refs are either
\* all set or all null.
C3_AllOrNothing ==
    starts = << >> => (GraphRefs = {0} \/ 0 \notin GraphRefs)

\* C4: stopAudioCapture is idempotent: on an Idle session it makes no release
\* call and changes nothing (the bars are and stay at the baseline), and a
\* second call right after a first makes no release call and leaves the
\* state the first call left.
C4_StopIdempotent ==
    LET once == StopAudioCapture(World)
        again == StopAudioCapture([once EXCEPT !.calls = << >>])
    IN /\ again.calls = << >>
       /\ [again EXCEPT !.calls = once.calls] = once
       /\ (Idle => once = World)
       /\ (lastOp \in {"deactivate", "unmount"} /\ stopFromIdle =>
                stopCalls = << >> /\ Idle /\ barHeights = Baseline)

C4_Witness ==
    /\ lastOp = "deactivate"
    /\ stopFromIdle
    /\ stopCalls = << >>
    /\ \E k \in Sessions : tracks[k] = "ended"

C8_FrequencyBarsInRange ==
    /\ Len(barHeights) = BAR_COUNT
    /\ \A i \in 1..BAR_COUNT :
        /\ barHeights[i] >= MIN_BAR_HEIGHT * HUnit
        /\ barHeights[i] <= MAX_BAR_HEIGHT * HUnit

C8_Witness ==
    /\ lastOp = "tick"
    /\ \E i \in 1..BAR_COUNT : barHeights[i] = MAX_BAR_HEIGHT * HUnit
    /\ \E i \in 1..BAR_COUNT :
        /\ barHeights[i] > MIN_BAR_HEIGHT * HUnit
        /\ barHeights[i] < MAX_BAR_HEIGHT * HUnit

\* C13: after a floating-expanded(true) signal, as long as no error has been
\* set (by an error signal or a failed start), no processing signal has come
\* and the session has not been deactivated, the controller is Active-Idle:
\* isActive, no error label, not processing, whatever the flags were before.
C13_ActivationClearsFlags ==
    activation.undisturbed => (isActive /\ error = "" /\ ~isProcessing)

C13_Witness ==
    /\ activation.undisturbed
    /\ activation.hadError
    /\ activation.wasProcessing
    /\ lastOp = "start"
    /\ View = "bars"

\* C14: the bars are rendered exactly when isActive holds, isProcessing does
\* not and no error label is set; when both isProcessing and an error label
\* are set the processing message is rendered, not the label.
C14_BarsRenderedWhenActiveIdle ==
    /\ (View = "bars") <=> (isActive /\ ~isProcessing /\ error = "")
    /\ (isActive /\ isProcessing) => View = "processing"
    /\ (isActive /\ ~isProcessing /\ error # "") => View = "error"
    /\ ~isActive => View = "nothing"

C14_Witness ==
    /\ isActive
    /\ isProcessing
    /\ error = "Transcription failed"
    /\ View = "processing"

\* C16: every frame delivered to onmessage is handed to send_audio_chunk
\* exactly once, in the order posted, whether earlier sends failed or not; a
\* failed send is not repeated and changes neither the capture session, the
\* error label nor the frames still waiting on the port.
C16_SendIsFireAndForget ==
    /\ [](/\ sends.invoked = [i \in 1..Len(sends.invoked) |-> i]
          /\ Len(sends.invoked) + Len(port) = sends.posted
          /\ sends.failed \subseteq Range(sends.invoked)
          /\ sends.failed \cap sends.inFlight = {})
    /\ [][lastOp' = "sendFailed" =>
            UNCHANGED <<cap, tracks, ctxs, rafPending, error, isActive,
                        isStartingRef, starts, port>>]_vars

C16_Witness ==
    /\ lastOp = "onmessage"
    /\ 1 \in sends.failed
    /\ sends.invoked = <<1, 2>>
    /\ 2 \in sends.inFlight
    /\ LiveStreams # {}

StopOrder == <<"cancelAnimationFrame", "worklet.disconnect",
               "analyser.disconnect", "source.disconnect", "track.stop",
               "context.close", "setBarHeights">>

Position(step) == CHOOSE i \in 1..Len(StopOrder) : StopOrder[i] = step

InOrder(steps) ==
    \A i, j \in 1..Len(steps) : i < j => Position(steps[i]) < Position(steps[j])

\* C20: the steps a stopAudioCapture call takes, in any state, come in the
\* order: cancel the animation frame, disconnect worklet, analyser, source,
\* stop the tracks, close the context (only when it is not closed), reset the
\* bars; the reset is always the last step.
C20_StopOrder ==
    LET steps == StopSteps(World)
    IN /\ InOrder(steps)
       /\ steps[Len(steps)] = "setBarHeights"
       /\ ("context.close" \in Range(steps) =>
              ctxs[cap.audioContextRef] \in {"running", "closing"})
       /\ (lastOp \in {"deactivate", "unmount", "startFailed"} =>
              InOrder(stopCalls) /\ barHeights = Baseline)

C20_Witness ==
    /\ lastOp = "deactivate"
    /\ stopCalls = SubSeq(StopOrder, 1, 6)

StopOps == {"deactivate", "unmount", "startFailed"}

\* C21: from the return of a stopAudioCapture call until a startAudioCapture
\* call has succeeded, that is, has ended with every ref set, an animation
\* tick finds no analyser: it leaves the bar vector as it is and schedules
\* no further callback.
C21_NoTickAfterStop ==
    [][(quiet /\ lastOp' \in {"tick", "tickNoAnalyser"}) =>
            /\ barHeights' = barHeights
            /\ cap' = cap
            /\ rafPending' \subseteq rafPending]_vars

\* C22: when the close of an audio context resolves or rejects, also after a
\* new session has started, nothing changes but the state of the context
\* that was being closed: the refs, the animation handle and callbacks, the
\* bar vector, the error label, the tracks and the calls in flight stay.
C22_StaleCloseIgnored ==
    [][lastOp' \in {"closeSettled", "closeRejected"} =>
            /\ UNCHANGED <<cap, rafPending, barHeights, error, isStartingRef,
                           starts, tracks, isActive, isProcessing>>
            /\ \A k \in Sessions : ctxs'[k] # ctxs[k] => ctxs[k] = "closing"]_vars

\* the close of session 1 resolves while session 2 is live
C22_Witness ==
    /\ lastOp = "closeSettled"
    /\ ctxs[1] = "closed"
    /\ cap = [streamRef |-> 2, audioContextRef |-> 2, analyserRef |-> 2,
              sourceNodeRef |-> 2, workletNodeRef |-> 2,
              animationFrameRef |-> cap.animationFrameRef]
    /\ cap.animationFrameRef # 0
    /\ tracks[2] = "live"
    /\ ctxs[2] = "running"

\* C23: every ref is null when stopAudioCapture has returned, whether the
\* close it started will reject or not; the rejection changes neither the
\* error label, the refs nor isStartingRef; and after a rejected close, with
\* no call in flight and no stream live, the guard of startAudioCapture is
\* open.
C23_TeardownErrorNotSurfaced ==
    /\ [](lastOp \in StopOps => cap = NullCap)
    /\ [][lastOp' = "closeRejected" =>
            UNCHANGED <<error, cap, isStartingRef, starts, isActive>>]_vars
    /\ []((lastOp = "closeRejected" /\ starts = << >> /\ LiveStreams = {}) =>
            StartGuardOpen)

\* a start call passes the guard after the close of session 1 has rejected
C23_Witness ==
    /\ lastOp = "start"
    /\ ctxs[1] = "closeFailed"
    /\ isStartingRef
    /\ error = ""

Live == 0 \notin GraphRefs /\ cap.animationFrameRef # 0

\* C24: when a startAudioCapture call has ended, by success or by failure,
\* isStartingRef is false and the session is Live (every ref set) or Idle
\* (every ref null); isStartingRef is set only while a call is in flight;
\* after a failed call the guard is open.
C24_StartSettlesDefined ==
    /\ (lastOp \in {"started", "startFailed"} =>
            ~isStartingRef /\ (Idle \/ Live))
    /\ (starts = << >> => ~isStartingRef)
    /\ (lastOp = "startFailed" => StartGuardOpen)

UnknownLabels == {"Mic error"} \cup {"Mic error: " \o name : name \in DomErrors}

\* C25: the catch block of a failed start makes exactly one setError call,
\* whose label is the one shown: "Mic denied" for NotAllowedError, "Mic not
\* found" for NotFoundError, "Mic unavailable" for OverconstrainedError, and
\* an unknown-error label for any other DOMException and for anything that is
\* no DOMException.
C25_ErrorClassifiedOnce ==
    lastOp = "startFailed" =>
        /\ Len(failure.calls) = 1
        /\ error = failure.calls[1]
        /\ (failure.err = "NotAllowedError" <=> error = "Mic denied")
        /\ (failure.err = "NotFoundError" <=> error = "Mic not found")
        /\ (failure.err = "OverconstrainedError" <=> error = "Mic unavailable")
        /\ (failure.err \notin {"NotAllowedError", "NotFoundError",
                                 "OverconstrainedError"} <=>
                error \in UnknownLabels)
        /\ (failure.err \in {"TypeError", "StoreError"} => error = "Mic error")

\* a second start has failed with another class of error than the first
C25_Witness ==
    /\ lastOp = "startFailed"
    /\ requests.failed = 2
    /\ failure.err = "OverconstrainedError"
    /\ error = "Mic unavailable"

\* C30: the send_audio_chunk calls made so far, followed by the frames still
\* waiting on the port, are the frames the AudioProcessor posted, in the
\* order it posted them and each once; a call is made for the oldest frame
\* waiting, whatever became of the calls before it, and a call made is never
\* withdrawn or repeated.
C30_FramesSentInOrder ==
    /\ [](sends.invoked \o port = [i \in 1..sends.posted |-> i])
    /\ [][lastOp' = "onmessage" /\ sends' # sends =>
            sends'.invoked = Append(sends.invoked, Head(port))]_vars
    /\ [][lastOp' # "onmessage" => sends'.invoked = sends.invoked]_vars

\* the second frame is handed over while the call for the first is pending
C30_Witness ==
    /\ lastOp = "onmessage"
    /\ sends.invoked = <<1, 2>>
    /\ sends.inFlight = {1, 2}
    /\ sends.failed = {}

----------------------------------------------------------------------------
(* Claims about the frame encoder *)

\* the encoder that got the samples delivered so far in one process() call
OneCall == Process(NewEncoder, InputChannel(wave, session.origin, fed))

\* C6: however the samples delivered so far were split into process() calls
\* (empty calls included), the frames posted are, sample for sample, those
\* posted when the same samples come in one call, and so is what is retained.
C6_SplitInvariance == enc = OneCall

C6_Witness ==
    /\ nCalls = 3
    /\ lastLen = 2400
    /\ enc.bufferIndex = 1
    /\ Len(enc.posted) = 2

\* C7: after N samples, floor(N / 2400) frames have been posted, each of 2400
\* samples, and bufferIndex = N mod 2400; 4800 samples give 2 frames and no
\* remainder, 2401 samples 1 frame and a remainder of 1.
C7_FrameCount ==
    /\ Len(enc.posted) = fed \div bufferSize
    /\ \A f \in 1..Len(enc.posted) : Len(enc.posted[f]) = bufferSize
    /\ enc.bufferIndex = fed % bufferSize
    /\ enc.bufferIndex >= 0 /\ enc.bufferIndex < bufferSize
    /\ (fed = 4800 => Len(enc.posted) = 2 /\ enc.bufferIndex = 0)
    /\ (fed = 2401 => Len(enc.posted) = 1 /\ enc.bufferIndex = 1)

C7_Witness ==
    /\ fed = 4800
    /\ lastLen = 4800
    /\ Len(enc.posted) = 2
    /\ enc.bufferIndex = 0

\* C26: a frame, once posted, stays as it was posted; the arrays posted as
\* frames are all different arrays, none of them is the array samples are
\* accumulated in, none has been written to after it was posted, and the
\* array samples are accumulated in was allocated after every frame posted.
C26_FramesNotWrittenAfterHandOff ==
    /\ [](LET a == enc.arrays
          IN /\ Len(a.frameIds) = Len(enc.posted)
             /\ \A f, g \in 1..Len(a.frameIds) :
                    f # g => a.frameIds[f] # a.frameIds[g]
             /\ \A f \in 1..Len(a.frameIds) : a.frameIds[f] < a.bufferId
             /\ a.touched = {})
    /\ [][\A f \in 1..Len(enc.posted) :
            /\ f <= Len(enc'.posted)
            /\ enc'.posted[f] = enc.posted[f]
            /\ enc'.arrays.frameIds[f] = enc.arrays.frameIds[f]]_vars

\* samples are accumulated after two frames were posted
C26_Witness ==
    /\ Len(enc.posted) = 2
    /\ enc.arrays = [bufferId |-> 5, frameIds |-> <<2, 4>>, allocated |-> 5,
                     touched |-> {}]
    /\ enc.bufferIndex = 1
    /\ nCalls = 3

----------------------------------------------------------------------------
(* Claims about the scalar level estimator *)

\* C9: the bar vector of the scalar overlay always has 48 entries, each in
\* [MIN_BAR_HEIGHT, MAX_BAR_HEIGHT] = [3, 48], for every level in [0, 1] and
\* every jitter in [0.92, 1.08).
C9_LevelBarsInRange ==
    /\ Len(fwBarHeights) = BAR_COUNT_FW
    /\ \A i \in 1..BAR_COUNT_FW :
        /\ fwBarHeights[i] >= MIN_BAR_HEIGHT_FW * FP
        /\ fwBarHeights[i] <= MAX_BAR_HEIGHT_FW * FP

\* C10: an audio-level signal below NOISE_THRESHOLD sets the bar vector to the
\* baseline, whatever the bar vector was before.
C10_NoiseGate ==
    (fwLastOp = "audioLevel" /\ fwLevel < NOISE_THRESHOLD_MILLI) =>
        fwBarHeights = BaselineFw

C10_Witness ==
    /\ fwLastOp = "audioLevel"
    /\ fwLevel = 14
    /\ fwBarsBefore # BaselineFw
    /\ fwBarHeights = BaselineFw

\* C11: while the session is inactive the bar vector is the baseline, also
\* when audio-level signals arrive after the deactivation: a level update
\* changes the bar vector only while the session is active.
C11_InactiveBarsAtBaseline ==
    ~fwIsActive => fwBarHeights = BaselineFw

\* C15: a mode or rule selection, and the settling of its store write,
\* change nothing but activeMode, skipRules and the ACTIVE_MODE and
\* SKIP_RULES_ONCE keys of the store: isActive, isProcessing, error, the bar
\* vector and everything of the capture session stay as they were, whether
\* the write succeeds or fails.
C15_ModeSelectionFrame ==
    [][fwLastOp' \in {"updateActiveMode", "setRulesMode", "storeSetResolved",
                      "storeSetRejected"} =>
        /\ UNCHANGED <<fwIsActive, fwIsProcessing, fwError, fwBarHeights,
                       fwHasEnabledRules, fwHandlers, overlayVars, encVars,
                       recVars>>
        /\ fwStore'.transcriptionRules = fwStore.transcriptionRules
        /\ (fwLastOp' = "storeSetRejected" => fwStore' = fwStore)
        /\ (fwLastOp' = "updateActiveMode" =>
                fwSkipRules' = fwSkipRules /\ fwStore' = fwStore)
        /\ (fwLastOp' = "setRulesMode" =>
                fwActiveMode' = fwActiveMode /\ fwStore' = fwStore)]_vars

\* a selection was made over a moving bar vector, and its write has failed
C15_Witness ==
    /\ fwLastOp = "storeSetRejected"
    /\ fwActiveMode = "professional-email"
    /\ fwStore.activeMode = ""
    /\ fwBarHeights # BaselineFw
    /\ fwIsActive

\* the bar vectors of amplifiedLevel = 1.0, one for every run of Math.random()
SaturatedBars ==
    [profile \in RandomProfiles |->
        [b \in 1..BAR_COUNT_FW |->
            LevelBarHeight(FP, b - 1, Random(profile, b - 1))]]

\* C27: for an audio-level payload at or above NOISE_THRESHOLD the amplified
\* level lies in [0, 1]; it is exactly 1 when 36 * (level - 0.015) >= 0.985,
\* as for level 0.5, and the bars are then those of an amplified level of 1.
C27_AmplifiedLevelSaturates ==
    (fwLastOp = "audioLevel" /\ fwLevel >= NOISE_THRESHOLD_MILLI) =>
        LET amplifiedLevel == AmplifiedLevel(fwLevel)
            saturates == 36 * (fwLevel - NOISE_THRESHOLD_MILLI)
                            >= LevelDen - NOISE_THRESHOLD_MILLI
        IN /\ amplifiedLevel >= 0
           /\ amplifiedLevel <= FP
           /\ (saturates => amplifiedLevel = FP)
           /\ (fwLevel = 500 => amplifiedLevel = FP)
           /\ (saturates =>
                  \E profile \in RandomProfiles :
                      fwBarHeights = SaturatedBars[profile])

\* the lowest payload drawn that saturates; the one below it does not
C27_Witness ==
    /\ fwLastOp = "audioLevel"
    /\ fwLevel = 43
    /\ fwBarHeights = SaturatedBars["mixed"]
    /\ AmplifiedLevel(41) < FP
    /\ AmplifiedLevel(41) > 0

----------------------------------------------------------------------------
(* Claims about the recorder hooks *)

\* C18: once a failed startRecording has been handled, no media track is
\* live and no audio context is open.
C18_RecorderReleasesOnFailure ==
    recLastOp = "startFailed" =>
        /\ \A k \in Sessions : recTracks[k] # "live"
        /\ \A k \in Sessions : recCtxs[k] # "running"

\* C28: when a second toggleRecording call has run while the startRecording
\* of the first was suspended at an await, and every call has settled, no
\* track is live, no audio context is open and isRecording is false.
C28_DoubleToggleLeavesNoCapture ==
    (recToggles = <<"start", "stopDuringStart">> /\ recCalls = << >>) =>
        /\ \A k \in Sessions : recTracks[k] # "live"
        /\ \A k \in Sessions : recCtxs[k] # "running"
        /\ ~rt.isRecording

StopToggles == {"stop", "stopDuringStart"}

\* the latest toggleRecording call that got past the apiKey check ran
\* stopRecording
StoppedSince ==
    LET ran == {i \in 1..Len(recToggles) : recToggles[i] # "startNoKey"}
    IN /\ ran # {}
       /\ recToggles[CHOOSE i \in ran : \A j \in ran : j <= i] \in StopToggles

\* C29: send_audio_chunk is called only while isRecordingRef is true: from a
\* stopRecording until the next startRecording no call is made, a frame
\* delivered in between is dropped; every frame delivered is either sent or
\* dropped, once.
C29_SendOnlyWhileRecording ==
    /\ [][recSends'.invoked # recSends.invoked =>
            rt.isRecordingRef /\ ~StoppedSince]_vars
    /\ [](StoppedSince => ~rt.isRecordingRef)
    /\ [](Len(recSends.invoked) + Len(recSends.dropped) + Len(recPort)
            = recSends.posted)

\* a frame the worklet posted before the stop is delivered after it
C29_Witness ==
    /\ recLastOp = "chunkDropped"
    /\ recToggles = <<"start", "stop">>
    /\ recSends.invoked = <<1>>
    /\ recSends.dropped = <<2>>

----------------------------------------------------------------------------
(* Claims about quantization *)

\* the sample that went into element j of the f-th frame posted
FrameSample(f, j) == Sample(wave, session.origin + (f - 1) * bufferSize + j - 1)

Int16Min == -(2 ^ 15)
Int16Max == 2 ^ 15 - 1

\* C12: every element of a posted frame lies in [-32768, 32767]; a sample of
\* 1.0 or more gives 32767, a sample of -1.0 or less gives -32768 (no 16-bit
\* wraparound), a sample in between is scaled by 32768 when negative and by
\* 32767 otherwise and truncated toward zero.
C12_QuantizeClamps ==
    \A f \in 1..Len(enc.posted) : \A j \in 1..bufferSize :
        LET x == FrameSample(f, j)
            q == enc.posted[f][j]
        IN /\ q >= Int16Min /\ q <= Int16Max
           /\ (x >= SampleDen => q = Int16Max)
           /\ (x <= -SampleDen => q = Int16Min)
           /\ (x >= 0 /\ x < SampleDen => q = (x * Int16Max) \div SampleDen)
           /\ (x < 0 /\ x > -SampleDen => q = -((-x * 2 ^ 15) \div SampleDen))

C12_Witness ==
    /\ wave = "loud"
    /\ Len(enc.posted) = 2
    /\ \E f \in 1..2, j \in 1..bufferSize :
            FrameSample(f, j) = SampleDen /\ enc.posted[f][j] = Int16Max
    /\ \E f \in 1..2, j \in 1..bufferSize :
            FrameSample(f, j) = -SampleDen /\ enc.posted[f][j] = Int16Min
    /\ \E f \in 1..2, j \in 1..bufferSize :
            FrameSample(f, j) > SampleDen /\ enc.posted[f][j] = Int16Max
    /\ \E f \in 1..2, j \in 1..bufferSize :
            FrameSample(f, j) < -SampleDen /\ enc.posted[f][j] = Int16Min

----------------------------------------------------------------------------
(* Claims about the encoder across sessions *)

\* C19: the samples a session leaves in the buffer when it stops are never
\* posted: the stop posts nothing, the next start begins with an empty
\* buffer and no frame, and every frame of a session is made of that
\* session's own samples, 2400 at a time from its first.
C19_PartialBufferDropped ==
    /\ [](\A f \in 1..Len(enc.posted) : \A j \in 1..bufferSize :
              enc.posted[f][j] = Quantize(FrameSample(f, j)))
    /\ [][session'.op = "stop" => enc' = enc]_vars
    /\ [][session'.op = "start" =>
            enc'.bufferIndex = 0 /\ enc'.posted = << >>]_vars

\* the second session has posted its first frame after the first session
\* left one sample behind
C19_Witness ==
    /\ session.n = 2
    /\ session.dropped = 1
    /\ session.origin = 2401
    /\ Len(enc.posted) = 1

====
